---- MODULE Spec2Model ----
(***************************************************************************)
(* Model of ebook-generator.py: the EbookGenerator document assembler, its *)
(* PDF backend chain, the EPUB renderer and the orchestrator generate_all  *)
(* together with the command line entry point main.                        *)
(*                                                                         *)
(* A Python string is modelled as a sequence of tokens (a filename         *)
(* "01-introduction.md" is <<"01", "-", "introduction", ".md">>), so that  *)
(* the string operations of the source (replace, split, endswith, title,   *)
(* Path.stem) are computed token by token and are not the identity.        *)
(***************************************************************************)
EXTENDS Integers, Sequences, FiniteSets, TLC

\* ------------------------------------------------------------------ bounds
\* Number of filenames of the chapter list that a registry is drawn from.
NumChapters == 2

\* ------------------------------------------------------- string operations
\* The chapter order of EbookGenerator.__init__, tokenised.
AllChapters ==
    << <<"01", "-", "introduction", ".md">>,
       <<"02", "-", "installation", ".md">>,
       <<"03", "-", "routing", ".md">>,
       <<"04", "-", "controllers", ".md">>,
       <<"05", "-", "blade", ".md">>,
       <<"06", "-", "eloquent", ".md">>,
       <<"07", "-", "migrations", ".md">>,
       <<"08", "-", "middleware", ".md">>,
       <<"09", "-", "auth", ".md">>,
       <<"10", "-", "events", "-", "queues", ".md">>,
       <<"11", "-", "testing", ".md">>,
       <<"12", "-", "deployment", ".md">>,
       <<"13", "-", "caching", ".md">>,
       <<"14", "-", "performance", ".md">>,
       <<"15", "-", "microservices", ".md">> >>

\* The filenames a registry of the model is made of.
Filenames == {AllChapters[i] : i \in 1..NumChapters}

\* A registry entry that is no Markdown file, for the endswith('.md') test of
\* generate_toc.
OtherFilenames == {<<"notes", ".txt">>}

\* str.endswith(suffix) for a one-token suffix.
EndsWith(s, suffix) == Len(s) > 0 /\ s[Len(s)] = suffix

\* str.replace(old, new) for a one-token old; new is a token sequence.
RECURSIVE Replace(_, _, _)
Replace(s, old, new) ==
    IF s = <<>> THEN <<>>
    ELSE (IF Head(s) = old THEN new ELSE <<Head(s)>>) \o Replace(Tail(s), old, new)

\* str.title() of one token: a word gets its first letter in upper case,
\* digits and punctuation are unchanged.
TitleToken(t) ==
    CASE t = "introduction"  -> "Introduction"
      [] t = "installation"  -> "Installation"
      [] t = "routing"       -> "Routing"
      [] t = "controllers"   -> "Controllers"
      [] t = "blade"         -> "Blade"
      [] t = "eloquent"      -> "Eloquent"
      [] t = "migrations"    -> "Migrations"
      [] t = "middleware"    -> "Middleware"
      [] t = "auth"          -> "Auth"
      [] t = "events"        -> "Events"
      [] t = "queues"        -> "Queues"
      [] t = "testing"       -> "Testing"
      [] t = "deployment"    -> "Deployment"
      [] t = "caching"       -> "Caching"
      [] t = "performance"   -> "Performance"
      [] t = "microservices" -> "Microservices"
      [] OTHER               -> t

\* str.title()
Title(s) == [i \in 1..Len(s) |-> TitleToken(s[i])]

\* str.split(sep)[0]: the tokens before the first separator.
RECURSIVE SplitFirst(_, _)
SplitFirst(s, sep) ==
    IF s = <<>> \/ Head(s) = sep THEN <<>>
    ELSE <<Head(s)>> \o SplitFirst(Tail(s), sep)

\* The suffix tokens pathlib recognises in the filenames of the model.
Suffixes == {".md", ".txt"}

\* pathlib.Path.stem: the final component without its last suffix.
Stem(path) ==
    IF Len(path) > 1 /\ path[Len(path)] \in Suffixes
    THEN SubSeq(path, 1, Len(path) - 1)
    ELSE path

\* chapter.replace('.md', '').replace('-', ' ').title()
ChapterName(chapter) == Title(Replace(Replace(chapter, ".md", <<>>), "-", <<" ">>))

\* chapter.split('-')[0]
ChapterNumber(chapter) == SplitFirst(chapter, "-")

\* ------------------------------------------------------------------ state
VARIABLES
    chapters,              \* self.chapters, the chapter registry (a sequence of filenames)
    docs,                  \* the registry filenames that exist in self.docs_dir
    WEASYPRINT_AVAILABLE,  \* module flag set by the import probe of weasyprint
    PDFKIT_AVAILABLE,      \* module flag set by the import probe of pdfkit
    pandoc_installed,      \* whether the pandoc executable is on the system
    pandoc_hangs,          \* whether a started pandoc process never exits
    cover_png,             \* whether output_dir/cover.png exists
    pc,                    \* position of the running invocation of main
    format,                \* args.format of the running invocation
    html_content,          \* the local html_content of generate_all / main
    html_file,             \* output_dir/laravel-book.html: NoText or its content
    pdf_file,              \* output_dir/laravel-book.pdf: NoFile or the backend that wrote it
    epub_file,             \* output_dir/laravel-book.epub: NoFile or "pandoc"
    combined_md,           \* output_dir/combined.md: NoText or its content
    invoked,               \* the renderer methods called in this invocation, in order
    cmds,                  \* the argument lists given to subprocess.run in this invocation
    reports,               \* the lines printed in this invocation, in order
    results,               \* how each call in invoked ended: "returned" or the exception raised
    pdf_before,            \* pdf_file as it was when this invocation started
    epub_before,           \* epub_file as it was when this invocation started
    convert_arg,           \* the argument of a direct call of convert_markdown_to_html
    convert_result         \* how that call ended, and the value it returned

env == <<chapters, docs, WEASYPRINT_AVAILABLE, PDFKIT_AVAILABLE, pandoc_installed,
         pandoc_hangs, cover_png>>
disk == <<html_file, pdf_file, epub_file, combined_md>>
log == <<invoked, cmds, reports, results>>
before == <<pdf_before, epub_before>>
call == <<convert_arg, convert_result>>
vars == <<env, call, pc, format, html_content, disk, log, before>>

\* No file at the path of an artifact, and no value in a variable not yet set.
NoFile == "<absent>"
NoContent == "<unset>"
\* No file at the path of a text file, and html_content before its assignment.
\* Every text the program writes has at least a header, so it is never empty.
NoText == <<>>
\* convert_markdown_to_html has not been called directly.
NoCall == [outcome |-> "none", value |-> <<>>]

\* The values datetime.now().strftime('%B %d, %Y') can take during the runs.
Dates == {"March 03, 2024", "March 04, 2024"}

\* The choices of --format.
Formats == {"all", "html", "pdf", "epub"}

\* All duplicate-free sequences over a set: the registries of the model.
RECURSIVE Orderings(_)
Orderings(S) ==
    {<<>>} \cup UNION {{<<x>> \o t : t \in Orderings(S \ {x})} : x \in S}

\* Path.exists() of self.docs_dir / chapter.
Exists(chapter_file) == chapter_file \in docs

\* f.read() of a chapter source file.
ReadFile(chapter_file) == <<"markdown of">> \o chapter_file

\* markdown.markdown(content, extensions=[...]): the external Markdown engine.
Markdown(content) == <<"html of">> \o content

\* ------------------------------------------------------ document assembler
\* One <li><a href="#...">...</a></li> of generate_toc.
TocEntry(chapter) ==
    [kind |-> "toc_entry",
     href |-> <<"#">> \o chapter,
     text |-> ChapterNumber(chapter) \o <<". ">> \o ChapterName(chapter)]

\* Variant of the loop of generate_toc without the endswith('.md') test.
RECURSIVE TocEntries_NoSuffixTest(_)
TocEntries_NoSuffixTest(cs) ==
    IF cs = <<>> THEN <<>>
    ELSE <<TocEntry(Head(cs))>> \o TocEntries_NoSuffixTest(Tail(cs))

\* The links generate_toc emits, in the order of self.chapters.
RECURSIVE TocEntries(_)
TocEntries(cs) ==
    IF cs = <<>> THEN <<>>
    ELSE (IF EndsWith(Head(cs), ".md") THEN <<TocEntry(Head(cs))>> ELSE <<>>)
         \o TocEntries(Tail(cs))

generate_toc ==
    <<[kind |-> "toc_open"]>> \o TocEntries(chapters) \o <<[kind |-> "toc_close"]>>

generate_cover(now) == <<[kind |-> "cover", date |-> now]>>

\* Returns "" (the empty sequence) for a missing file, else one chapter block.
convert_markdown_to_html(markdown_file) ==
    IF ~Exists(markdown_file) THEN <<>>
    ELSE <<[kind |-> "chapter",
            id   |-> Stem(markdown_file),
            html |-> Markdown(ReadFile(markdown_file))]>>

\* Variant of the chapter loop that puts each new block in front of the others.
RECURSIVE ChapterBlocks_Prepend(_)
ChapterBlocks_Prepend(cs) ==
    IF cs = <<>> THEN <<>>
    ELSE ChapterBlocks_Prepend(Tail(cs))
         \o (IF Exists(Head(cs)) THEN convert_markdown_to_html(Head(cs)) ELSE <<>>)

\* The loop "for chapter in self.chapters" of generate_html.
RECURSIVE ChapterBlocks(_)
ChapterBlocks(cs) ==
    IF cs = <<>> THEN <<>>
    ELSE (IF Exists(Head(cs)) THEN convert_markdown_to_html(Head(cs)) ELSE <<>>)
         \o ChapterBlocks(Tail(cs))

\* Variant of generate_html that also stamps the date on the closing part.
generate_html_DateInTail(now) ==
    <<[kind |-> "head"]>> \o generate_cover(now) \o generate_toc
        \o ChapterBlocks(chapters) \o <<[kind |-> "tail", date |-> now]>>

generate_html(now) ==
    <<[kind |-> "head"]>> \o generate_cover(now) \o generate_toc
        \o ChapterBlocks(chapters) \o <<[kind |-> "tail"]>>

\* ------------------------------------------- combined Markdown documents
\* One line "{number}. [{name}](#{anchor})" of the textual table of contents.
PandocTocLine(chapter) ==
    [kind   |-> "toc_line",
     number |-> ChapterNumber(chapter),
     name   |-> ChapterName(chapter),
     anchor |-> Replace(chapter, ".md", <<>>)]

RECURSIVE PandocTocLines(_)
PandocTocLines(cs) ==
    IF cs = <<>> THEN <<>>
    ELSE (IF EndsWith(Head(cs), ".md") THEN <<PandocTocLine(Head(cs))>> ELSE <<>>)
         \o PandocTocLines(Tail(cs))

\* The heading, the raw Markdown and the horizontal rule written for one chapter.
ChapterSection(chapter) ==
    <<[kind |-> "heading", text |-> ChapterName(chapter)],
      [kind |-> "raw", text |-> ReadFile(chapter)],
      [kind |-> "rule"]>>

\* The loop over self.chapters that writes the sections of the existing files.
RECURSIVE ChapterSections(_)
ChapterSections(cs) ==
    IF cs = <<>> THEN <<>>
    ELSE (IF Exists(Head(cs)) THEN ChapterSection(Head(cs)) ELSE <<>>)
         \o ChapterSections(Tail(cs))

\* Variant of generate_pdf_pandoc that writes the table of contents after the
\* chapter sections.
PdfCombined_TocAfterChapters(now) ==
    <<[kind |-> "title"], [kind |-> "date", date |-> now]>>
        \o ChapterSections(chapters) \o <<[kind |-> "toc_heading"]>>
        \o PandocTocLines(chapters) \o <<[kind |-> "rule"]>>

\* What generate_pdf_pandoc writes to combined.md.
PdfCombined(now) ==
    <<[kind |-> "title"], [kind |-> "date", date |-> now], [kind |-> "toc_heading"]>>
        \o PandocTocLines(chapters) \o <<[kind |-> "rule"]>> \o ChapterSections(chapters)

\* Variant of the EPUB document that writes a section for every registry chapter.
RECURSIVE AllSections(_)
AllSections(cs) ==
    IF cs = <<>> THEN <<>> ELSE ChapterSection(Head(cs)) \o AllSections(Tail(cs))

EpubCombined_NoExistsTest(now) ==
    <<[kind |-> "title"], [kind |-> "date", date |-> now]>> \o AllSections(chapters)

\* What generate_epub writes to combined.md.
EpubCombined(now) ==
    <<[kind |-> "title"], [kind |-> "date", date |-> now]>> \o ChapterSections(chapters)

\* cmd of generate_pdf_pandoc.
PdfCmd ==
    <<"pandoc", "combined.md", "-o", "laravel-book.pdf", "--pdf-engine=xelatex",
      "--toc", "--number-sections", "--variable=geometry:margin=2cm",
      "--variable=fontsize:11pt", "--variable=mainfont:Segoe UI",
      "--variable=monofont:Courier New">>

\* cmd of generate_epub.
EpubCmd ==
    <<"pandoc", "combined.md", "-o", "laravel-book.epub", "--toc", "--number-sections",
      IF cover_png THEN "--epub-cover-image=cover.png" ELSE "">>

\* ------------------------------------------------------------ orchestrator
Init ==
    /\ chapters \in Orderings(Filenames)
    /\ docs \in SUBSET {chapters[i] : i \in 1..Len(chapters)}
    /\ WEASYPRINT_AVAILABLE \in BOOLEAN
    /\ PDFKIT_AVAILABLE \in BOOLEAN
    /\ pandoc_installed \in BOOLEAN
    /\ pandoc_hangs \in {h \in BOOLEAN : h => pandoc_installed}
    /\ cover_png \in BOOLEAN
    /\ pc = "idle"
    /\ format = NoContent
    /\ html_content = NoText
    /\ html_file = NoText
    /\ pdf_file = NoFile
    /\ epub_file = NoFile
    /\ combined_md = NoText
    /\ invoked = <<>>
    /\ cmds = <<>>
    /\ reports = <<>>
    /\ results = <<>>
    /\ pdf_before = NoFile
    /\ epub_before = NoFile
    /\ convert_arg = NoText
    /\ convert_result = NoCall

\* main: parse the arguments, construct the generator, branch on args.format.
\* The program may be run again into the same output directory once a run has
\* ended; the files on disk stay as the last run left them.
Main(fmt) ==
    /\ pc \in {"idle", "done", "aborted"}
    /\ format' = fmt
    /\ html_content' = NoText
    /\ invoked' = <<>>
    /\ cmds' = <<>>
    /\ results' = <<>>
    /\ reports' = IF fmt = "all" THEN << <<"generating">> >> ELSE <<>>
    /\ pdf_before' = pdf_file
    /\ epub_before' = epub_file
    /\ pc' = IF fmt = "epub" THEN "epub" ELSE "html"
    /\ UNCHANGED <<env, call, disk>>

\* Variant of generate_all that goes to the PDF stage before html_file is written.
GenerateHtml_SkipWrite ==
    /\ pc = "html"
    /\ \E now \in Dates, raised \in BOOLEAN :
         /\ raised => \E i \in 1..Len(chapters) : Exists(chapters[i])
         /\ IF raised
            THEN /\ pc' = "aborted"
                 /\ reports' = Append(reports, <<"traceback">>)
                 /\ UNCHANGED html_content
            ELSE /\ html_content' = generate_html(now)
                 /\ pc' = IF format = "html" THEN "write_html" ELSE "pdf"
                 /\ UNCHANGED reports
    /\ UNCHANGED <<env, call, format, disk, invoked, cmds, results, before>>

\* html_content = generate_html(); reading a chapter file may raise, uncaught:
\* the interpreter prints the traceback and the process ends.
GenerateHtml ==
    /\ pc = "html"
    /\ \E now \in Dates, raised \in BOOLEAN :
         /\ raised => \E i \in 1..Len(chapters) : Exists(chapters[i])
         /\ IF raised
            THEN /\ pc' = "aborted"
                 /\ reports' = Append(reports, <<"traceback">>)
                 /\ UNCHANGED html_content
            ELSE /\ html_content' = generate_html(now)
                 /\ pc' = IF format = "pdf" THEN "pdf" ELSE "write_html"
                 /\ UNCHANGED reports
    /\ UNCHANGED <<env, call, format, disk, invoked, cmds, results, before>>

\* Variant of generate_all that logs a failed write of html_file and goes on.
WriteHtml_FailureCaught ==
    /\ pc = "write_html"
    /\ \E raised \in BOOLEAN :
         IF raised
         THEN /\ pc' = IF format = "all" THEN "pdf" ELSE "done"
              /\ reports' = Append(reports, <<"traceback">>)
              /\ UNCHANGED html_file
         ELSE /\ html_file' = html_content
              /\ reports' = Append(reports, <<"html_generated">>)
              /\ pc' = IF format = "all" THEN "pdf" ELSE "done"
    /\ UNCHANGED <<env, call, format, html_content, pdf_file, epub_file, combined_md,
                   invoked, cmds, results, before>>

\* with open(html_file, 'w') ...: f.write(html_content); opening may raise, uncaught.
WriteHtml ==
    /\ pc = "write_html"
    /\ \E raised \in BOOLEAN :
         IF raised
         THEN /\ pc' = "aborted"
              /\ reports' = Append(reports, <<"traceback">>)
              /\ UNCHANGED html_file
         ELSE /\ html_file' = html_content
              /\ reports' = Append(reports, <<"html_generated">>)
              /\ pc' = IF format = "all" THEN "pdf" ELSE "done"
    /\ UNCHANGED <<env, call, format, html_content, pdf_file, epub_file, combined_md,
                   invoked, cmds, results, before>>

\* Variant of the backend choice that tests the pdfkit flag first.
SelectBackend_PdfkitFirst ==
    IF PDFKIT_AVAILABLE THEN "generate_pdf_pdfkit"
    ELSE IF WEASYPRINT_AVAILABLE THEN "generate_pdf_weasyprint"
    ELSE "generate_pdf_pandoc"

\* Variant in which the pdf branch of main tests the flags in another order
\* than generate_all.
SelectBackend_PdfBranchPdfkitFirst ==
    IF format = "pdf" /\ PDFKIT_AVAILABLE THEN "generate_pdf_pdfkit"
    ELSE IF WEASYPRINT_AVAILABLE THEN "generate_pdf_weasyprint"
    ELSE IF PDFKIT_AVAILABLE THEN "generate_pdf_pdfkit"
    ELSE "generate_pdf_pandoc"

\* The if / elif / else on the availability flags that picks the PDF backend.
SelectBackend ==
    IF WEASYPRINT_AVAILABLE THEN "generate_pdf_weasyprint"
    ELSE IF PDFKIT_AVAILABLE THEN "generate_pdf_pdfkit"
    ELSE "generate_pdf_pandoc"

\* Variant in which a failed PDF stage ends the run (the exception is not caught).
AfterPdf_StopOnFailure ==
    IF format = "all" /\ reports'[Len(reports')] # <<"pdf_failed">> THEN "epub" ELSE "done"

\* The position after the PDF try block.
AfterPdf == IF format = "all" THEN "epub" ELSE "done"

\* The success line of the PDF stage: generate_all names the backend, main does not.
PdfGenerated(label) ==
    IF format = "all" THEN <<"pdf_generated", label>> ELSE <<"pdf_generated">>

\* The in-process engine's own availability check, then the engine call.
EngineAvailable(backend) ==
    IF backend = "generate_pdf_weasyprint" THEN WEASYPRINT_AVAILABLE ELSE PDFKIT_AVAILABLE

EngineLabel(backend) ==
    IF backend = "generate_pdf_weasyprint" THEN "WeasyPrint" ELSE "pdfkit"

\* Variant of the PDF stage that calls the engine a second time when it raises.
PdfInProcess_Retry ==
    /\ pc = "pdf"
    /\ SelectBackend \in {"generate_pdf_weasyprint", "generate_pdf_pdfkit"}
    /\ \E raised \in BOOLEAN :
         /\ ~EngineAvailable(SelectBackend) => raised
         /\ IF raised
            THEN /\ invoked' = invoked \o <<SelectBackend, SelectBackend>>
                 /\ results' = results \o <<"Exception", "Exception">>
                 /\ reports' = Append(reports, <<"pdf_failed">>)
                 /\ UNCHANGED pdf_file
            ELSE /\ invoked' = Append(invoked, SelectBackend)
                 /\ results' = Append(results, "returned")
                 /\ pdf_file' = EngineLabel(SelectBackend)
                 /\ reports' = Append(reports, PdfGenerated(EngineLabel(SelectBackend)))
    /\ pc' = AfterPdf
    /\ UNCHANGED <<env, call, format, html_content, html_file, epub_file, combined_md,
                   cmds, before>>

\* Variant of the PDF stage whose engine writes to another path than pdf_file.
PdfInProcess_WrongPath ==
    /\ pc = "pdf"
    /\ SelectBackend \in {"generate_pdf_weasyprint", "generate_pdf_pdfkit"}
    /\ invoked' = Append(invoked, SelectBackend)
    /\ \E raised \in BOOLEAN :
         /\ ~EngineAvailable(SelectBackend) => raised
         /\ results' = Append(results, IF raised THEN "Exception" ELSE "returned")
         /\ IF raised
            THEN reports' = Append(reports, <<"pdf_failed">>)
            ELSE reports' = Append(reports, PdfGenerated(EngineLabel(SelectBackend)))
    /\ pc' = AfterPdf
    /\ UNCHANGED <<env, call, format, html_content, disk, cmds, before>>

\* PDF stage through backend A or B: the engine writes the PDF or raises, and
\* the except clause of the orchestrator prints the failure.
PdfInProcess ==
    /\ pc = "pdf"
    /\ SelectBackend \in {"generate_pdf_weasyprint", "generate_pdf_pdfkit"}
    /\ invoked' = Append(invoked, SelectBackend)
    /\ \E raised \in BOOLEAN :
         /\ ~EngineAvailable(SelectBackend) => raised
         /\ results' = Append(results, IF raised THEN "Exception" ELSE "returned")
         /\ IF raised
            THEN /\ reports' = Append(reports, <<"pdf_failed">>)
                 /\ UNCHANGED pdf_file
            ELSE /\ pdf_file' = EngineLabel(SelectBackend)
                 /\ reports' = Append(reports, PdfGenerated(EngineLabel(SelectBackend)))
    /\ pc' = AfterPdf
    /\ UNCHANGED <<env, call, format, html_content, html_file, epub_file, combined_md,
                   cmds, before>>

\* generate_pdf_pandoc up to the call of subprocess.run.
PdfPandocStart ==
    /\ pc = "pdf"
    /\ SelectBackend = "generate_pdf_pandoc"
    /\ invoked' = Append(invoked, "generate_pdf_pandoc")
    /\ \E now \in Dates : combined_md' = PdfCombined(now)
    /\ cmds' = Append(cmds, PdfCmd)
    /\ pc' = "pdf_pandoc"
    /\ UNCHANGED <<env, call, format, html_content, html_file, pdf_file, epub_file,
                   reports, results, before>>

\* Variant of generate_pdf_pandoc that gives subprocess.run a timeout: a pandoc
\* that does not exit makes the call raise TimeoutExpired.
PdfPandocExit_Timeout ==
    /\ pc = "pdf_pandoc"
    /\ IF pandoc_hangs
       THEN /\ results' = Append(results, "TimeoutExpired")
            /\ reports' = Append(reports, <<"pdf_failed">>)
            /\ UNCHANGED <<pdf_file, combined_md>>
       ELSE IF ~pandoc_installed
       THEN /\ results' = Append(results, "FileNotFoundError")
            /\ reports' = reports \o << <<"pandoc_not_found">>, <<"pdf_failed">> >>
            /\ UNCHANGED <<pdf_file, combined_md>>
       ELSE \E returncode \in {0, 1} :
              IF returncode # 0
              THEN /\ results' = Append(results, "CalledProcessError")
                   /\ reports' = reports \o << <<"pandoc_error">>, <<"pdf_failed">> >>
                   /\ UNCHANGED <<pdf_file, combined_md>>
              ELSE /\ results' = Append(results, "returned")
                   /\ pdf_file' = "pandoc"
                   /\ combined_md' = NoText
                   /\ reports' = Append(reports, PdfGenerated("pandoc"))
    /\ pc' = AfterPdf
    /\ UNCHANGED <<env, call, format, html_content, html_file, epub_file, invoked,
                   cmds, before>>

\* Variant of generate_pdf_pandoc whose except FileNotFoundError clause prints the
\* message and does not re-raise, so the orchestrator prints its success line.
PdfPandocExit_NotFoundSwallowed ==
    /\ pc = "pdf_pandoc"
    /\ ~pandoc_hangs
    /\ IF ~pandoc_installed
       THEN /\ results' = Append(results, "returned")
            /\ reports' = reports \o << <<"pandoc_not_found">>, PdfGenerated("pandoc") >>
            /\ UNCHANGED <<pdf_file, combined_md>>
       ELSE \E returncode \in {0, 1} :
              IF returncode # 0
              THEN /\ results' = Append(results, "CalledProcessError")
                   /\ reports' = reports \o << <<"pandoc_error">>, <<"pdf_failed">> >>
                   /\ UNCHANGED <<pdf_file, combined_md>>
              ELSE /\ results' = Append(results, "returned")
                   /\ pdf_file' = "pandoc"
                   /\ combined_md' = NoText
                   /\ reports' = Append(reports, PdfGenerated("pandoc"))
    /\ pc' = AfterPdf
    /\ UNCHANGED <<env, call, format, html_content, html_file, epub_file, invoked,
                   cmds, before>>

\* subprocess.run(cmd, check=True) returns or raises; the rest of
\* generate_pdf_pandoc and the except clause of the orchestrator. The call has
\* no timeout: it blocks until the pandoc process exits.
PdfPandocExit ==
    /\ pc = "pdf_pandoc"
    /\ ~pandoc_hangs
    /\ IF ~pandoc_installed
       THEN /\ results' = Append(results, "FileNotFoundError")
            /\ reports' = reports \o << <<"pandoc_not_found">>, <<"pdf_failed">> >>
            /\ UNCHANGED <<pdf_file, combined_md>>
       ELSE \E returncode \in {0, 1} :
              IF returncode # 0
              THEN /\ results' = Append(results, "CalledProcessError")
                   /\ reports' = reports \o << <<"pandoc_error">>, <<"pdf_failed">> >>
                   /\ UNCHANGED <<pdf_file, combined_md>>
              ELSE /\ results' = Append(results, "returned")
                   /\ pdf_file' = "pandoc"
                   /\ combined_md' = NoText
                   /\ reports' = Append(reports, PdfGenerated("pandoc"))
    /\ pc' = AfterPdf
    /\ UNCHANGED <<env, call, format, html_content, html_file, epub_file, invoked,
                   cmds, before>>

\* Variant of generate_epub that opens combined.md for appending.
EpubStart_Append ==
    /\ pc = "epub"
    /\ invoked' = Append(invoked, "generate_epub")
    /\ \E now \in Dates : combined_md' = combined_md \o EpubCombined(now)
    /\ cmds' = Append(cmds, EpubCmd)
    /\ pc' = "epub_pandoc"
    /\ UNCHANGED <<env, call, format, html_content, html_file, pdf_file, epub_file,
                   reports, results, before>>

\* generate_epub up to the call of subprocess.run; open(combined_md, 'w')
\* truncates a file that is already there.
EpubStart ==
    /\ pc = "epub"
    /\ invoked' = Append(invoked, "generate_epub")
    /\ \E now \in Dates : combined_md' = EpubCombined(now)
    /\ cmds' = Append(cmds, EpubCmd)
    /\ pc' = "epub_pandoc"
    /\ UNCHANGED <<env, call, format, html_content, html_file, pdf_file, epub_file,
                   reports, results, before>>

\* Variant of the EPUB stage whose except clause does not catch the missing tool:
\* the FileNotFoundError leaves generate_all and ends the run.
EpubPandocExit_NotFoundUncaught ==
    /\ pc = "epub_pandoc"
    /\ ~pandoc_hangs
    /\ IF ~pandoc_installed
       THEN /\ results' = Append(results, "FileNotFoundError")
            /\ reports' = reports \o << <<"pandoc_not_found">>, <<"traceback">> >>
            /\ pc' = "aborted"
            /\ UNCHANGED <<epub_file, combined_md>>
       ELSE /\ pc' = IF format = "all" THEN "complete" ELSE "done"
            /\ \E returncode \in {0, 1} :
                 IF returncode # 0
                 THEN /\ results' = Append(results, "CalledProcessError")
                      /\ reports' = reports \o << <<"pandoc_error">>, <<"epub_failed">> >>
                      /\ UNCHANGED <<epub_file, combined_md>>
                 ELSE /\ results' = Append(results, "returned")
                      /\ epub_file' = "pandoc"
                      /\ combined_md' = NoText
                      /\ reports' = Append(reports, <<"epub_generated">>)
    /\ UNCHANGED <<env, call, format, html_content, html_file, pdf_file, invoked,
                   cmds, before>>

\* Variant of the EPUB stage that prints its success line after the try block,
\* whether generate_epub returned or raised.
EpubPandocExit_SuccessAfterTry ==
    /\ pc = "epub_pandoc"
    /\ ~pandoc_hangs
    /\ IF ~pandoc_installed
       THEN /\ results' = Append(results, "FileNotFoundError")
            /\ reports' = reports \o << <<"pandoc_not_found">>, <<"epub_failed">>,
                                       <<"epub_generated">> >>
            /\ UNCHANGED <<epub_file, combined_md>>
       ELSE \E returncode \in {0, 1} :
              IF returncode # 0
              THEN /\ results' = Append(results, "CalledProcessError")
                   /\ reports' = reports \o << <<"pandoc_error">>, <<"epub_failed">>,
                                              <<"epub_generated">> >>
                   /\ UNCHANGED <<epub_file, combined_md>>
              ELSE /\ results' = Append(results, "returned")
                   /\ epub_file' = "pandoc"
                   /\ combined_md' = NoText
                   /\ reports' = Append(reports, <<"epub_generated">>)
    /\ pc' = IF format = "all" THEN "complete" ELSE "done"
    /\ UNCHANGED <<env, call, format, html_content, html_file, pdf_file, invoked,
                   cmds, before>>

\* subprocess.run(cmd, check=True) returns or raises; the rest of generate_epub
\* and the except clause of the orchestrator. The call has no timeout.
EpubPandocExit ==
    /\ pc = "epub_pandoc"
    /\ ~pandoc_hangs
    /\ IF ~pandoc_installed
       THEN /\ results' = Append(results, "FileNotFoundError")
            /\ reports' = reports \o << <<"pandoc_not_found">>, <<"epub_failed">> >>
            /\ UNCHANGED <<epub_file, combined_md>>
       ELSE \E returncode \in {0, 1} :
              IF returncode # 0
              THEN /\ results' = Append(results, "CalledProcessError")
                   /\ reports' = reports \o << <<"pandoc_error">>, <<"epub_failed">> >>
                   /\ UNCHANGED <<epub_file, combined_md>>
              ELSE /\ results' = Append(results, "returned")
                   /\ epub_file' = "pandoc"
                   /\ combined_md' = NoText
                   /\ reports' = Append(reports, <<"epub_generated">>)
    /\ pc' = IF format = "all" THEN "complete" ELSE "done"
    /\ UNCHANGED <<env, call, format, html_content, html_file, pdf_file, invoked,
                   cmds, before>>

\* print("\nEbook generation complete!"), the last statement of generate_all.
Complete ==
    /\ pc = "complete"
    /\ reports' = Append(reports, <<"complete">>)
    /\ pc' = "done"
    /\ UNCHANGED <<env, call, format, html_content, disk, invoked, cmds, results, before>>

Next ==
    \/ \E fmt \in Formats : Main(fmt)
    \/ GenerateHtml
    \/ WriteHtml
    \/ PdfInProcess
    \/ PdfPandocStart
    \/ PdfPandocExit
    \/ EpubStart
    \/ EpubPandocExit
    \/ Complete

Spec == Init /\ [][Next]_vars

\* The steps of a started run: everything but the start of a new run.
Run ==
    \/ GenerateHtml
    \/ WriteHtml
    \/ PdfInProcess
    \/ PdfPandocStart
    \/ PdfPandocExit
    \/ EpubStart
    \/ EpubPandocExit
    \/ Complete

\* One invocation of main with the chapter list of __init__ as the registry
\* (the statements executed do not depend on the order of the registry), in an
\* output directory that holds no file yet.
OneRunInit == Init /\ chapters = SubSeq(AllChapters, 1, NumChapters)

\* The same with a pandoc that exits whenever it is started.
FairInit == OneRunInit /\ ~pandoc_hangs

FairNext == (pc = "idle" /\ \E fmt \in Formats : Main(fmt)) \/ Run

\* A started run keeps executing: the interpreter runs the next statement and
\* every call, a subprocess included, returns or raises.
FairSpec == FairInit /\ [][FairNext]_vars /\ WF_vars(Run)

\* One invocation of main as above, with a pandoc that may never exit once it
\* is started; every other statement and call returns or raises.
HangSpec == OneRunInit /\ [][FairNext]_vars /\ WF_vars(Run)

\* Document assembly alone: one run of --format html over a registry that may
\* hold an entry that is no Markdown file, in an output directory that holds no
\* file yet.
AssembleInit ==
    /\ chapters \in Orderings(Filenames \cup OtherFilenames)
    /\ docs \in SUBSET {chapters[i] : i \in 1..Len(chapters)}
    /\ WEASYPRINT_AVAILABLE = FALSE
    /\ PDFKIT_AVAILABLE = FALSE
    /\ pandoc_installed = FALSE
    /\ pandoc_hangs = FALSE
    /\ cover_png = FALSE
    /\ pc = "idle"
    /\ format = NoContent
    /\ html_content = NoText
    /\ html_file = NoText
    /\ pdf_file = NoFile
    /\ epub_file = NoFile
    /\ combined_md = NoText
    /\ invoked = <<>>
    /\ cmds = <<>>
    /\ reports = <<>>
    /\ results = <<>>
    /\ pdf_before = NoFile
    /\ epub_before = NoFile
    /\ convert_arg = NoText
    /\ convert_result = NoCall

AssembleNext == (pc = "idle" /\ Main("html")) \/ GenerateHtml \/ WriteHtml

AssembleSpec == AssembleInit /\ [][AssembleNext]_vars

\* Variant of convert_markdown_to_html without the exists() test: open() of a
\* missing file raises.
Convert_RaisesOnMissing ==
    /\ pc = "idle" /\ convert_result = NoCall
    /\ \E path \in Filenames \cup OtherFilenames, raised \in BOOLEAN :
         /\ raised => Exists(path)
         /\ convert_arg' = path
         /\ convert_result' =
                IF ~Exists(path) THEN [outcome |-> "FileNotFoundError", value |-> <<>>]
                ELSE IF raised THEN [outcome |-> "Exception", value |-> <<>>]
                ELSE [outcome |-> "returned", value |-> convert_markdown_to_html(path)]
         /\ UNCHANGED reports
    /\ UNCHANGED <<env, pc, format, html_content, disk, invoked, cmds, results, before>>

\* A direct call of convert_markdown_to_html(self.docs_dir / path) on a
\* constructed generator: a missing file prints the warning and returns "",
\* reading an existing file may raise.
Convert ==
    /\ pc = "idle" /\ convert_result = NoCall
    /\ \E path \in Filenames \cup OtherFilenames, raised \in BOOLEAN :
         /\ raised => Exists(path)
         /\ convert_arg' = path
         /\ convert_result' =
                IF raised THEN [outcome |-> "Exception", value |-> <<>>]
                ELSE [outcome |-> "returned", value |-> convert_markdown_to_html(path)]
         /\ reports' =
                IF Exists(path) THEN reports ELSE Append(reports, <<"warning">> \o path)
    /\ UNCHANGED <<env, pc, format, html_content, disk, invoked, cmds, results, before>>

\* The Markdown transform called on its own, then document assembly.
ConvertNext == Convert \/ AssembleNext

ConvertSpec == AssembleInit /\ [][ConvertNext]_vars

\* ------------------------------------------------------------- properties
\* Reading the assembled document, the printed lines and the call log.
IsAssembled == html_content # NoText
Kinds(doc, k) == SelectSeq(doc, LAMBDA e : e.kind = k)
TocOf(doc) == Kinds(doc, "toc_entry")
BlocksOf(doc) == Kinds(doc, "chapter")
Anchor(entry) == Tail(entry.href)
IsPdfBackend(m) ==
    m \in {"generate_pdf_weasyprint", "generate_pdf_pdfkit", "generate_pdf_pandoc"}
PdfInvocations == SelectSeq(invoked, IsPdfBackend)
EpubInvocations == SelectSeq(invoked, LAMBDA m : m = "generate_epub")
Reported(line) == \E i \in 1..Len(reports) : reports[i] = line
PdfSucceeded == \E i \in 1..Len(reports) : reports[i][1] = "pdf_generated"
PdfFailed == Reported(<<"pdf_failed">>)
EpubSucceeded == Reported(<<"epub_generated">>)
EpubFailed == Reported(<<"epub_failed">>)
LastInvoked == IF invoked = <<>> THEN NoContent ELSE invoked[Len(invoked)]
\* The renderer called last has returned or raised.
PdfPandocLeft == LastInvoked = "generate_pdf_pandoc" /\ pc # "pdf_pandoc"
EpubLeft == LastInvoked = "generate_epub" /\ pc # "epub_pandoc"
\* A filename without its last token, the extension.
WithoutExtension(chapter) == SubSeq(chapter, 1, Len(chapter) - 1)

\* C1: in the assembled document every chapter block's id is the anchor of a
\* table-of-contents link, so the link of chapter X leads to the block of X.
C1_TocAnchorEqualsBlockId ==
    IsAssembled =>
        \A i \in 1..Len(BlocksOf(html_content)) :
            \E j \in 1..Len(TocOf(html_content)) :
                Anchor(TocOf(html_content)[j]) = BlocksOf(html_content)[i].id

\* C2: once generate_pdf_pandoc has returned or raised, combined.md is gone.
C2_PdfTempFileRemoved == PdfPandocLeft => combined_md = NoText

\* C3: the PDF stage calls the highest-preference backend that is available:
\* WeasyPrint when its flag is set, else pdfkit when its flag is set, else pandoc;
\* once the stage is over, one of them has been called.
C3_HighestPreferenceBackend ==
    /\ \A i \in 1..Len(invoked) :
         /\ invoked[i] = "generate_pdf_weasyprint" => WEASYPRINT_AVAILABLE
         /\ invoked[i] = "generate_pdf_pdfkit" => ~WEASYPRINT_AVAILABLE /\ PDFKIT_AVAILABLE
         /\ invoked[i] = "generate_pdf_pandoc" => ~WEASYPRINT_AVAILABLE /\ ~PDFKIT_AVAILABLE
    /\ (PdfSucceeded \/ PdfFailed) => PdfInvocations # <<>>

\* pdfkit has been called while WeasyPrint is unavailable and pdfkit is available.
C3_Witness ==
    /\ ~WEASYPRINT_AVAILABLE /\ PDFKIT_AVAILABLE
    /\ PdfInvocations = <<"generate_pdf_pdfkit">>
    /\ pc = "epub"

\* C4: one PDF request calls at most one backend, at most once; when that
\* backend fails the stage reports the failure and neither another backend nor
\* the same one is called afterwards, and no success is reported.
C4_OneBackendNoCascade ==
    /\ Len(PdfInvocations) <= 1
    /\ PdfFailed => Len(PdfInvocations) = 1 /\ ~PdfSucceeded

\* WeasyPrint raised with pdfkit available too, and the run has gone on to its end.
C4_Witness ==
    /\ WEASYPRINT_AVAILABLE /\ PDFKIT_AVAILABLE
    /\ PdfFailed
    /\ PdfInvocations = <<"generate_pdf_weasyprint">>
    /\ pc = "done"

\* C5: in a run of generate_all whose HTML artifact was written, the EPUB
\* renderer has been called exactly once by the time the final step is reached,
\* whatever the PDF stage did, and the final step is always reached.
C5_EpubOnceAndComplete ==
    /\ [](format = "all" /\ pc \in {"complete", "done"} => Len(EpubInvocations) = 1)
    /\ [](format = "all" /\ pc = "pdf" => <>(pc = "complete"))

\* generate_all is at its final step after a failed PDF stage and one EPUB attempt.
C5_Witness ==
    /\ format = "all" /\ pc = "complete"
    /\ PdfFailed
    /\ EpubInvocations = <<"generate_epub">>

\* The ids of the registry chapters whose file exists, in registry order.
RECURSIVE ExistingIds(_)
ExistingIds(cs) ==
    IF cs = <<>> THEN <<>>
    ELSE (IF Head(cs) \in docs THEN <<WithoutExtension(Head(cs))>> ELSE <<>>)
         \o ExistingIds(Tail(cs))

\* C6: the chapter blocks of the assembled document are, in registry order, one
\* block for each registry chapter whose file exists, and no other block.
C6_OneBlockPerExistingChapter ==
    IsAssembled =>
        LET blocks == BlocksOf(html_content)
        IN  [i \in 1..Len(blocks) |-> blocks[i].id] = ExistingIds(chapters)

\* A document assembled from a registry whose first chapter is the second file
\* of the chapter list, with one of two files missing.
C6_Witness ==
    /\ IsAssembled
    /\ Len(chapters) = 2 /\ chapters[1] = AllChapters[2]
    /\ Cardinality(docs) = 1
    /\ Len(BlocksOf(html_content)) = 1

\* C7: the assembled document has no table-of-contents entry for a registry
\* chapter whose file is missing (the entry of a chapter is the one whose link
\* names the chapter's file, with or without the extension).
C7_NoTocEntryForMissingChapter ==
    IsAssembled =>
        \A i \in 1..Len(chapters) :
            chapters[i] \notin docs =>
                \A j \in 1..Len(TocOf(html_content)) :
                    Anchor(TocOf(html_content)[j]) \notin
                        {chapters[i], WithoutExtension(chapters[i])}

\* C8: combined.md does not exist when the EPUB renderer starts, and it does
\* not exist once a run has ended.
C8_TempFileScopedToOneRenderer ==
    /\ pc = "epub" => combined_md = NoText
    /\ pc \in {"done", "aborted"} => combined_md = NoText

\* C9: once generate_epub has returned or raised, combined.md is gone.
C9_EpubTempFileRemoved == EpubLeft => combined_md = NoText

\* C10 as stated: after a run, the artifact of a stage exists exactly when the
\* stage succeeded in that run.
C10_ArtifactIffStageSucceeded ==
    pc = "done" =>
        /\ (PdfSucceeded \/ PdfFailed) => (pdf_file # NoFile <=> PdfSucceeded)
        /\ (EpubSucceeded \/ EpubFailed) => (epub_file # NoFile <=> EpubSucceeded)

\* C10 amended: after a run, the artifact of a stage that succeeded exists; a
\* stage that failed leaves the path as it was before the run, so the artifact
\* of an earlier run is still there.
C10_ArtifactAfterRun ==
    pc = "done" =>
        /\ PdfSucceeded => pdf_file # NoFile
        /\ PdfFailed => pdf_file = pdf_before
        /\ EpubSucceeded => epub_file # NoFile
        /\ EpubFailed => epub_file = epub_before

\* A run has ended whose PDF stage failed, into a directory that held the PDF of
\* an earlier run.
C10_Witness ==
    /\ pc = "done"
    /\ PdfFailed
    /\ pdf_before # NoFile
    /\ pdf_file # NoFile

\* The calls of the two renderers that run pandoc, as indexes of invoked.
IsSubprocessRenderer(m) == m \in {"generate_pdf_pandoc", "generate_epub"}
EndedSubprocessCalls ==
    {i \in 1..Len(results) : IsSubprocessRenderer(invoked[i])}
CountReports(line) == Cardinality({i \in 1..Len(reports) : reports[i] = line})
CountResults(r) == Cardinality({i \in 1..Len(results) : results[i] = r})
EpubCmds == SelectSeq(cmds, LAMBDA c : c[4] = "laravel-book.epub")
KindsOf(doc) == [i \in 1..Len(doc) |-> doc[i].kind]

\* C11: with neither in-process engine and no pandoc on the system, a run of
\* generate_all whose HTML stage went through writes the HTML artifact, prints the
\* PDF failure, then calls the EPUB renderer and prints its failure, and ends
\* with its final line; only the HTML stage can end such a run with a traceback.
C11_NoEngineNoTool ==
    (format = "all" /\ ~WEASYPRINT_AVAILABLE /\ ~PDFKIT_AVAILABLE /\ ~pandoc_installed) =>
        /\ pc = "done" =>
             /\ html_file = html_content
             /\ invoked = <<"generate_pdf_pandoc", "generate_epub">>
             /\ reports = << <<"generating">>, <<"html_generated">>,
                             <<"pandoc_not_found">>, <<"pdf_failed">>,
                             <<"pandoc_not_found">>, <<"epub_failed">>,
                             <<"complete">> >>
        /\ pc = "aborted" => invoked = <<>>

\* Such a run has ended.
C11_Witness ==
    /\ format = "all" /\ ~WEASYPRINT_AVAILABLE /\ ~PDFKIT_AVAILABLE /\ ~pandoc_installed
    /\ pc = "done"
    /\ EpubFailed

\* C12: a renderer that runs pandoc raises FileNotFoundError exactly when pandoc
\* is missing, and the "not found" line is printed for each such call and for no
\* other; the "error running pandoc" line is printed for each call whose pandoc
\* exited non-zero and for no other; a call that raised makes its stage report a
\* failure and never a success.
C12_FailureKindsDistinguished ==
    /\ \A i \in EndedSubprocessCalls :
         /\ results[i] = "FileNotFoundError" <=> ~pandoc_installed
         /\ results[i] \in {"returned", "CalledProcessError", "FileNotFoundError"}
         /\ (invoked[i] = "generate_pdf_pandoc" /\ results[i] # "returned")
                => PdfFailed /\ ~PdfSucceeded
         /\ (invoked[i] = "generate_epub" /\ results[i] # "returned")
                => EpubFailed /\ ~EpubSucceeded
    /\ CountReports(<<"pandoc_not_found">>) = CountResults("FileNotFoundError")
    /\ CountReports(<<"pandoc_error">>) = CountResults("CalledProcessError")

\* In one run pandoc was missing for no call, and exited non-zero for the PDF.
C12_Witness ==
    /\ pc = "done" /\ format = "all"
    /\ results = <<"CalledProcessError", "returned">>
    /\ Reported(<<"pandoc_error">>)

\* C13: when no registry chapter file exists, the document generate_epub hands
\* to pandoc is the title and the date line only, pandoc is run exactly once for
\* the EPUB, and a failure of it ends in the orchestrator's failure line, not in
\* the end of the run.
C13_EpubWithoutChapters ==
    docs = {} =>
        /\ pc = "epub_pandoc" =>
             /\ KindsOf(combined_md) = <<"title", "date">>
             /\ Len(EpubCmds) = 1
        /\ EpubLeft =>
             /\ Len(EpubCmds) = 1
             /\ results[Len(results)] # "returned" =>
                    EpubFailed /\ pc \in {"complete", "done"}

\* A registry of two chapters, none of which exists: the EPUB attempt has failed.
C13_Witness ==
    /\ docs = {} /\ Len(chapters) = 2
    /\ EpubLeft /\ EpubFailed
    /\ pc = "complete"

\* C14: in generate_all no PDF backend is called before the HTML artifact is
\* written, and the EPUB renderer is not called before the one PDF attempt has
\* ended in a success or a failure.
C14_StageOrder ==
    format = "all" =>
        /\ PdfInvocations # <<>> =>
             /\ Reported(<<"html_generated">>)
             /\ html_file = html_content
        /\ EpubInvocations # <<>> =>
             /\ Len(PdfInvocations) = 1
             /\ IsPdfBackend(invoked[1]) /\ Len(results) >= 1
             /\ PdfSucceeded \/ PdfFailed

\* generate_all is in the EPUB subprocess after a failed PDF attempt.
C14_Witness ==
    /\ format = "all" /\ pc = "epub_pandoc"
    /\ PdfFailed
    /\ html_file = html_content

\* C15: the argument list of the EPUB call holds the cover-image flag exactly
\* when cover.png exists, and without the cover it is the tool name, the input
\* path, the output option with its path and the two flags, and nothing else.
C15_CoverFlagOnlyWithCover ==
    \A i \in 1..Len(EpubCmds) :
        /\ (\E k \in 1..Len(EpubCmds[i]) : EpubCmds[i][k] = "--epub-cover-image=cover.png")
               <=> cover_png
        /\ ~cover_png =>
               EpubCmds[i] = <<"pandoc", "combined.md", "-o", "laravel-book.epub",
                               "--toc", "--number-sections">>

\* C16: when 01-introduction.md is in the registry, the table of contents has
\* an entry with the text "1. Introduction" that links to #01-introduction.
C16_TocEntryLabel ==
    (IsAssembled /\ \E i \in 1..Len(chapters) : chapters[i] = AllChapters[1]) =>
        \E j \in 1..Len(TocOf(html_content)) :
            /\ TocOf(html_content)[j].text = <<"1", ". ", "Introduction">>
            /\ TocOf(html_content)[j].href = <<"#", "01", "-", "introduction">>

\* The registry entries whose last token is the Markdown extension, in order.
MarkdownChapters == SelectSeq(chapters, LAMBDA c : c[Len(c)] = ".md")

\* C17: the links of the table of contents are, in registry order, one link to
\* each registry entry whose filename ends in .md, and no other link.
C17_OneLinkPerMarkdownChapter ==
    IsAssembled =>
        /\ Len(TocOf(html_content)) = Len(MarkdownChapters)
        /\ \A j \in 1..Len(MarkdownChapters) :
               TocOf(html_content)[j].href = <<"#">> \o MarkdownChapters[j]

\* A document assembled from a registry of three entries whose second one is no
\* Markdown file.
C17_Witness ==
    /\ IsAssembled
    /\ Len(chapters) = 3 /\ chapters[2] \in OtherFilenames
    /\ Len(TocOf(html_content)) = 2

\* Two documents are equal but for the date of their cover.
SameButCoverDate(a, b) ==
    /\ Len(a) = Len(b)
    /\ \A i \in 1..Len(a) :
           IF a[i].kind = "cover" /\ b[i].kind = "cover"
           THEN [a[i] EXCEPT !.date = b[i].date] = b[i]
           ELSE a[i] = b[i]
CoverDates(doc) == {doc[i].date : i \in {k \in 1..Len(doc) : doc[k].kind = "cover"}}

\* C18: the document assembled in a run and the HTML artifact on disk, written
\* by a run over the same registry and the same files, are equal but for the
\* date of the cover, and equal when the dates are equal.
C18_DeterministicButDate ==
    (IsAssembled /\ html_file # NoText) =>
        /\ SameButCoverDate(html_file, html_content)
        /\ CoverDates(html_file) = CoverDates(html_content) => html_file = html_content

\* A run has assembled its document on another date than the run that wrote the
\* artifact on disk.
C18_Witness ==
    /\ pc = "write_html"
    /\ html_file # NoText
    /\ CoverDates(html_file) # CoverDates(html_content)
    /\ docs # {}

\* C19: an exception of the HTML stage is not caught: the traceback ends the
\* run with no renderer called and no final line; a run ends this way for no
\* other reason, and no renderer and no write is done a second time.
C19_OnlyHtmlFailureAborts ==
    /\ Reported(<<"traceback">>) <=> pc = "aborted"
    /\ pc = "aborted" =>
         /\ invoked = <<>> /\ cmds = <<>> /\ results = <<>>
         /\ ~Reported(<<"complete">>)
         /\ ~Reported(<<"html_generated">>)
    /\ Len(PdfInvocations) <= 1 /\ Len(EpubInvocations) <= 1
    /\ Len(cmds) <= Len(invoked)
    /\ CountReports(<<"html_generated">>) <= 1

\* The write of the HTML artifact has failed in generate_all.
C19_Witness ==
    /\ pc = "aborted" /\ format = "all"
    /\ IsAssembled

\* C20: a started run ends provided pandoc exits whenever it is started; when
\* the pandoc started for the PDF never exits, the run stays in that call for
\* ever: no step leaves it, so no renderer is called and no line printed after.
C20_NoTimeout ==
    /\ [](~pandoc_hangs /\ pc # "idle" => <>(pc \in {"done", "aborted"}))
    /\ [][(pandoc_hangs /\ pc = "pdf_pandoc") =>
            (pc' = "pdf_pandoc" /\ invoked' = invoked /\ reports' = reports)]_vars

\* generate_all waits for a pandoc that does not exit.
C20_Witness ==
    /\ pandoc_hangs
    /\ format = "all" /\ pc = "pdf_pandoc"

\* The registry chapters whose source file exists, in registry order, and the
\* positions of the parts of one kind in a document.
ExistingChapters == SelectSeq(chapters, LAMBDA c : c \in docs)
PositionsOf(doc, k) == {i \in 1..Len(doc) : doc[i].kind = k}

\* C21: the combined document backend C hands to pandoc starts with the title,
\* then the generation date, then the textual table of contents (one line per
\* Markdown registry entry), and only then holds the raw Markdown of the
\* registry chapters whose file exists, in registry order, each directly
\* followed by a horizontal rule; a missing chapter has no heading and no text.
C21_PdfCombinedOrder ==
    pc = "pdf_pandoc" =>
        LET doc == combined_md
            raws == Kinds(doc, "raw")
        IN  /\ Len(doc) >= 3
            /\ KindsOf(SubSeq(doc, 1, 3)) = <<"title", "date", "toc_heading">>
            /\ doc[2].date \in Dates
            /\ PositionsOf(doc, "title") = {1} /\ PositionsOf(doc, "date") = {2}
            /\ PositionsOf(doc, "toc_line") = 4..(3 + Len(MarkdownChapters))
            /\ \A j \in PositionsOf(doc, "raw") :
                   /\ j > 3 + Len(MarkdownChapters)
                   /\ j < Len(doc) /\ doc[j + 1].kind = "rule"
            /\ [i \in 1..Len(raws) |-> raws[i].text]
                   = [i \in 1..Len(ExistingChapters) |-> ReadFile(ExistingChapters[i])]
            /\ Len(Kinds(doc, "heading")) = Len(ExistingChapters)

\* Backend C has written the document of a registry of two chapters led by the
\* second file of the chapter list, the other file missing.
C21_Witness ==
    /\ pc = "pdf_pandoc"
    /\ Len(chapters) = 2 /\ chapters[1] = AllChapters[2]
    /\ docs = {AllChapters[2]}
    /\ Len(Kinds(combined_md, "raw")) = 1

\* C22: convert_markdown_to_html called for a file that does not exist returns
\* the empty result, raises nothing and prints its warning; what it returns for
\* an existing file is exactly one chapter container whose id is the filename
\* without its extension; document assembly is never ended by a missing file:
\* it can only end by reading a file that exists.
C22_MissingFileReturnsEmpty ==
    /\ convert_result # NoCall =>
         IF convert_arg \notin docs
         THEN /\ convert_result = [outcome |-> "returned", value |-> <<>>]
              /\ pc = "idle" => reports = << <<"warning">> \o convert_arg >>
         ELSE convert_result.outcome = "returned" =>
                /\ KindsOf(convert_result.value) = <<"chapter">>
                /\ convert_result.value[1].id = WithoutExtension(convert_arg)
    /\ (pc = "aborted" /\ ~IsAssembled) => docs # {}
    /\ (IsAssembled /\ docs = {}) => BlocksOf(html_content) = <<>>

\* The transform was called for a registry chapter whose file is missing, and
\* the document has then been assembled without it.
C22_Witness ==
    /\ convert_result.outcome = "returned"
    /\ convert_arg \notin docs
    /\ \E i \in 1..Len(chapters) : chapters[i] = convert_arg
    /\ pc = "done"

\* The backend the preference rule of generate_all names for the flags.
PreferredBackend ==
    IF WEASYPRINT_AVAILABLE THEN "generate_pdf_weasyprint"
    ELSE IF PDFKIT_AVAILABLE THEN "generate_pdf_pdfkit"
    ELSE "generate_pdf_pandoc"

\* C23: a run that has ended without a traceback did the stages of its format
\* and no other: html wrote the HTML artifact and called no renderer; pdf made
\* one PDF attempt and no EPUB attempt and wrote no HTML artifact; epub made one
\* EPUB attempt and nothing else; all did generate_all, from its first line to
\* its last. In the pdf branch and in generate_all alike, the backend called is
\* the one the preference rule names for the flags, and the stage reports
\* success exactly when that call returned and failure exactly when it raised:
\* both are the same function of the flags and of the backend's outcome.
C23_FormatSelectsStages ==
    /\ pc = "done" =>
         /\ format = "html" =>
              /\ invoked = <<>> /\ cmds = <<>>
              /\ reports = << <<"html_generated">> >>
              /\ html_file = html_content
         /\ format = "pdf" =>
              /\ invoked = <<PreferredBackend>>
              /\ ~Reported(<<"html_generated">>)
              /\ Len(reports) \in {1, 2}
              /\ reports[Len(reports)] \in {<<"pdf_generated">>, <<"pdf_failed">>}
         /\ format = "epub" =>
              /\ invoked = <<"generate_epub">>
              /\ ~IsAssembled
              /\ Len(reports) \in {1, 2}
              /\ reports[Len(reports)] \in {<<"epub_generated">>, <<"epub_failed">>}
         /\ format = "all" =>
              /\ invoked = <<PreferredBackend, "generate_epub">>
              /\ reports[1] = <<"generating">> /\ reports[2] = <<"html_generated">>
              /\ reports[Len(reports)] = <<"complete">>
              /\ html_file = html_content
    /\ (format \in {"pdf", "all"} /\ Len(results) >= 1) =>
         /\ invoked[1] = PreferredBackend
         /\ PdfSucceeded <=> results[1] = "returned"
         /\ PdfFailed <=> results[1] # "returned"

\* A run of --format pdf has ended with the PDF written by pdfkit, into a
\* directory that holds the HTML artifact of an earlier run.
C23_Witness ==
    /\ pc = "done" /\ format = "pdf"
    /\ invoked = <<"generate_pdf_pdfkit">>
    /\ PdfSucceeded
    /\ html_file # NoText

\* The number of outcome lines a stage has printed.
CountPdfOutcomes ==
    Cardinality({i \in 1..Len(reports) :
                    reports[i][1] = "pdf_generated" \/ reports[i] = <<"pdf_failed">>})
CountEpubOutcomes ==
    Cardinality({i \in 1..Len(reports) :
                    reports[i] \in {<<"epub_generated">>, <<"epub_failed">>}})

\* C24: in a run of generate_all a stage prints no outcome before its renderer
\* has returned or raised and exactly one line once it has: the success line
\* if and only if the renderer returned, the failure line if and only if it
\* raised; a run that reached its end has one outcome for each of the two stages.
C24_OneOutcomePerStage ==
    format = "all" =>
        /\ CountPdfOutcomes =
               Cardinality({i \in 1..Len(results) : IsPdfBackend(invoked[i])})
        /\ CountEpubOutcomes =
               Cardinality({i \in 1..Len(results) : invoked[i] = "generate_epub"})
        /\ \A i \in 1..Len(results) :
               IF IsPdfBackend(invoked[i])
               THEN /\ PdfSucceeded <=> results[i] = "returned"
                    /\ PdfFailed <=> results[i] # "returned"
               ELSE /\ EpubSucceeded <=> results[i] = "returned"
                    /\ EpubFailed <=> results[i] # "returned"
        /\ pc = "done" => CountPdfOutcomes = 1 /\ CountEpubOutcomes = 1

\* generate_all has ended after an in-process engine raised and the EPUB
\* renderer returned.
C24_Witness ==
    /\ format = "all" /\ pc = "done"
    /\ results = <<"Exception", "returned">>
    /\ PdfFailed /\ EpubSucceeded

\* C25: the document pandoc reads for the EPUB is the one generate_epub wrote
\* in this call, whatever was at the path before: the title, the date, then a
\* heading, the raw Markdown and a rule for each existing registry chapter, and
\* no part of the document of backend C, such as its table of contents.
C25_EpubCombinedFromScratch ==
    pc = "epub_pandoc" =>
        LET doc == combined_md
            n == Len(ExistingChapters)
        IN  /\ Len(doc) = 2 + 3 * n
            /\ KindsOf(SubSeq(doc, 1, 2)) = <<"title", "date">>
            /\ \A i \in 1..n :
                   /\ KindsOf(SubSeq(doc, 3 * i, 3 * i + 2)) = <<"heading", "raw", "rule">>
                   /\ doc[3 * i + 1].text = ReadFile(ExistingChapters[i])
            /\ PositionsOf(doc, "toc_heading") = {}
            /\ PositionsOf(doc, "toc_line") = {}

\* generate_all is in the EPUB subprocess after backend C failed, which left
\* its combined document at the path.
C25_Witness ==
    /\ pc = "epub_pandoc" /\ format = "all"
    /\ invoked = <<"generate_pdf_pandoc", "generate_epub">>
    /\ PdfFailed
    /\ docs # {}

====
